---- MODULE Spec2Model ----
(***************************************************************************)
(* LangGraphapp.py: the summarize_text retry loop (lines 30-46), and the   *)
(* Streamlit script around it (lines 110-222) as a sequence of script runs *)
(* over one session state.                                                 *)
(*                                                                         *)
(* Strings are sequences of tokens, so that "s contains t" is a contiguous *)
(* sub-sequence test and string building is concatenation.                 *)
(***************************************************************************)
EXTENDS Integers, Sequences, FiniteSets, TLC

VARIABLES
    callPc,      \* position inside summarize_text
    text,        \* state["text"] of the running call
    attempt,     \* loop variable of `for attempt in range(3)`
    resps,       \* responses the endpoint gave to this call, in order
    sleeps,      \* number of time.sleep(2) calls of this call
    ret,         \* the dict returned by the call
    outcome,     \* which return statement ended the call
    notice,      \* last st.warning / st.error text of this call
    saved,       \* harness: one earlier finished call, kept for comparison
    pc,          \* position of the Streamlit script run
    session,     \* st.session_state (a function on the keys it holds)
    tokenFile,   \* token.pickle on disk
    queryCode,   \* "code" present in st.query_params
    clearShown,  \* the "Clear Credentials" button was rendered by the last run
    clicked      \* this run was triggered by a click on that button

callVars == <<callPc, text, attempt, resps, sleeps, ret, outcome, notice>>
appVars == <<pc, session, tokenFile, queryCode, clearShown, clicked>>
vars == <<callPc, text, attempt, resps, sleeps, ret, outcome, notice, saved,
          pc, session, tokenFile, queryCode, clearShown, clicked>>

(***************************************************************************)
(* Program constants                                                       *)
(***************************************************************************)
MaxAttempts == 3
StatusOK == 200
StatusUnavailable == 503

(***************************************************************************)
(* Strings                                                                 *)
(***************************************************************************)
SummaryFailed == <<"Summarization failed.">>
NoNewsFound == <<"No news found to summarize.">>
EmptyStr == <<>>

\* f"Service temporarily unavailable (503). Retry {attempt+1}/3"
WarningMsg(a) ==
    <<"Service temporarily unavailable (503). Retry ", ToString(a + 1), "/3">>

\* f"Error summarizing: {response.status_code}, {response.text}"
ErrorMsg(r) == <<"Error summarizing: ", ToString(r.status), ", ">> \o r.text

ExhaustedMsg == <<"Summarization service unavailable after multiple attempts.">>

(***************************************************************************)
(* Endpoint responses: status code, raw body (response.text) and what      *)
(* response.json() parses it to.  json.valid is FALSE when the body is not *)
(* a JSON array; items are its elements, each with or without the          *)
(* summary_text key.                                                       *)
(***************************************************************************)
NotJson == [valid |-> FALSE, items |-> <<>>]
JsonArray(items) == [valid |-> TRUE, items |-> items]
WithSummary(s) == [has_summary_text |-> TRUE, summary_text |-> s]
WithoutSummary == [has_summary_text |-> FALSE, summary_text |-> EmptyStr]

Resp(st, tx, js) == [status |-> st, text |-> tx, json |-> js]

Responses ==
    { Resp(StatusOK, <<"[{summary_text:", "OK", "}]">>,
           JsonArray(<<WithSummary(<<"OK">>)>>)),
      Resp(StatusOK, <<"[{summary_text:", "Summarization failed.", "}]">>,
           JsonArray(<<WithSummary(SummaryFailed)>>)),
      Resp(StatusOK, <<"[{summary_text:", "bad request", "},{summary_text:", "OK", "}]">>,
           JsonArray(<<WithSummary(<<"bad request">>), WithSummary(<<"OK">>)>>)),
      Resp(StatusOK, <<"[]">>, JsonArray(<<>>)),
      Resp(StatusOK, <<"[{}]">>, JsonArray(<<WithoutSummary>>)),
      Resp(StatusUnavailable, <<"model loading">>, NotJson),
      Resp(400, <<"bad request">>, NotJson),
      Resp(400, <<"Summarization failed.">>, NotJson),
      Resp(404, <<"OK">>, NotJson) }

\* requests.post raised (DNS failure, connection reset): no response object,
\* recorded with status 0
TransportFault == Resp(0, EmptyStr, NotJson)

\* response.json()[0]["summary_text"] evaluates without raising
HasSummary(r) ==
    /\ r.json.valid
    /\ Len(r.json.items) >= 1
    /\ r.json.items[1].has_summary_text

JsonSummary(r) == r.json.items[1].summary_text

\* the input texts: MaxTexts distinct event / headline listings
MaxTexts == 2
Texts == { <<"- item ", ToString(i), "\n">> : i \in 1..MaxTexts }

NoRet == [text |-> EmptyStr, summary |-> EmptyStr]
NoCall == [done |-> FALSE, text |-> EmptyStr, resps |-> <<>>, sleeps |-> 0,
           ret |-> NoRet, outcome |-> "none", raised |-> FALSE]

\* number of requests the running call has sent
requests == Len(resps)

(***************************************************************************)
(* summarize_text                                                          *)
(***************************************************************************)
\* function entry: lines 31-34
Enter(t) ==
    /\ callPc = "idle"
    /\ callPc' = "post"
    /\ text' = t
    /\ attempt' = 0
    /\ resps' = <<>>
    /\ sleeps' = 0
    /\ ret' = NoRet
    /\ outcome' = "none"
    /\ notice' = EmptyStr

\* line 35: requests.post, which answers or raises
Post ==
    /\ callPc = "post"
    /\ \/ \E r \in Responses :
            /\ resps' = Append(resps, r)
            /\ callPc' = "check"
       \/ /\ resps' = Append(resps, TransportFault)
          /\ callPc' = "raised"
    /\ UNCHANGED <<text, attempt, sleeps, ret, outcome, notice, saved>>
    /\ UNCHANGED appVars

LastResp == resps[Len(resps)]

\* lines 36-38
On200RawBody ==
    /\ callPc = "check"
    /\ LastResp.status = StatusOK
    /\ ret' = [text |-> text, summary |-> LastResp.text]
    /\ outcome' = "Success"
    /\ callPc' = "returned"
    /\ UNCHANGED <<text, attempt, resps, sleeps, notice, saved>>
    /\ UNCHANGED appVars

On200 ==
    /\ callPc = "check"
    /\ LastResp.status = StatusOK
    /\ IF HasSummary(LastResp)
       THEN /\ ret' = [text |-> text, summary |-> JsonSummary(LastResp)]
            /\ outcome' = "Success"
            /\ callPc' = "returned"
       ELSE /\ callPc' = "raised"
            /\ UNCHANGED <<ret, outcome>>
    /\ UNCHANGED <<text, attempt, resps, sleeps, notice, saved>>
    /\ UNCHANGED appVars

\* lines 39-40
On503GiveUp ==
    /\ callPc = "check"
    /\ LastResp.status = StatusUnavailable
    /\ notice' = WarningMsg(attempt)
    /\ callPc' = "exit"
    /\ UNCHANGED <<text, attempt, resps, sleeps, ret, outcome, saved>>
    /\ UNCHANGED appVars

On503 ==
    /\ callPc = "check"
    /\ LastResp.status = StatusUnavailable
    /\ notice' = WarningMsg(attempt)
    /\ callPc' = "sleep"
    /\ UNCHANGED <<text, attempt, resps, sleeps, ret, outcome, saved>>
    /\ UNCHANGED appVars

\* line 41, then the loop head of line 34
Sleep ==
    /\ callPc = "sleep"
    /\ sleeps' = sleeps + 1
    /\ attempt' = attempt + 1
    /\ callPc' = IF attempt + 1 < MaxAttempts THEN "post" ELSE "exit"
    /\ UNCHANGED <<text, resps, ret, outcome, notice, saved>>
    /\ UNCHANGED appVars

\* lines 42-44
OnOtherRetry ==
    /\ callPc = "check"
    /\ LastResp.status \notin {StatusOK, StatusUnavailable}
    /\ notice' = ErrorMsg(LastResp)
    /\ callPc' = "sleep"
    /\ UNCHANGED <<text, attempt, resps, sleeps, ret, outcome, saved>>
    /\ UNCHANGED appVars

OnOtherGeneric ==
    /\ callPc = "check"
    /\ LastResp.status \notin {StatusOK, StatusUnavailable}
    /\ notice' = <<"Error summarizing: ">>
    /\ ret' = [text |-> text, summary |-> SummaryFailed]
    /\ outcome' = "ClientError"
    /\ callPc' = "returned"
    /\ UNCHANGED <<text, attempt, resps, sleeps, saved>>
    /\ UNCHANGED appVars

OnOther ==
    /\ callPc = "check"
    /\ LastResp.status \notin {StatusOK, StatusUnavailable}
    /\ notice' = ErrorMsg(LastResp)
    /\ ret' = [text |-> text, summary |-> LastResp.text]
    /\ outcome' = "ClientError"
    /\ callPc' = "returned"
    /\ UNCHANGED <<text, attempt, resps, sleeps, saved>>
    /\ UNCHANGED appVars

\* lines 45-46
LoopExit ==
    /\ callPc = "exit"
    /\ notice' = ExhaustedMsg
    /\ ret' = [text |-> text, summary |-> SummaryFailed]
    /\ outcome' = "ExhaustedRetries"
    /\ callPc' = "returned"
    /\ UNCHANGED <<text, attempt, resps, sleeps, saved>>
    /\ UNCHANGED appVars

(***************************************************************************)
(* A caller that invokes the pipeline directly, again and again            *)
(* (create_langgraph_pipeline().invoke({"text": t, "summary": ""})).       *)
(***************************************************************************)
Finished == callPc \in {"returned", "raised"}

ThisCall == [done |-> TRUE, text |-> text, resps |-> resps, sleeps |-> sleeps,
             ret |-> ret, outcome |-> outcome, raised |-> callPc = "raised"]

InvokeStale ==
    /\ \E t \in Texts :
         /\ callPc = "idle"
         /\ callPc' = IF attempt < MaxAttempts THEN "post" ELSE "exit"
         /\ text' = t
         /\ resps' = <<>>
         /\ sleeps' = 0
         /\ ret' = NoRet
         /\ outcome' = "none"
         /\ notice' = EmptyStr
         /\ UNCHANGED attempt
    /\ UNCHANGED saved
    /\ UNCHANGED appVars

Invoke ==
    /\ \E t \in Texts : Enter(t)
    /\ UNCHANGED saved
    /\ UNCHANGED appVars

\* the caller takes the result; the harness may keep it for later comparison
Collect ==
    /\ Finished
    /\ callPc' = "idle"
    /\ saved' \in {saved, ThisCall}
    /\ UNCHANGED <<text, attempt, resps, sleeps, ret, outcome, notice>>
    /\ UNCHANGED appVars

(***************************************************************************)
(* The Streamlit script, lines 110-222.  One run goes top -> step1 ->      *)
(* step2 -> step3 -> step4 -> display; st.rerun() restarts it at once, an  *)
(* uncaught exception ends it.                                             *)
(***************************************************************************)
EmptySession == [k \in {} |-> "None"]
Has(s, k) == k \in DOMAIN s
Put(s, k, v) == [x \in DOMAIN s \cup {k} |-> IF x = k THEN v ELSE s[x]]
Del(s, k) == [x \in DOMAIN s \ {k} |-> s[x]]

\* truthiness of st.session_state.credentials (None or a Credentials object)
Truthy(s) == s["credentials"] # "None"

\* a browser (re)load opens a new session; a widget event reruns the script
NewSession ==
    /\ pc \in {"idle", "crashed"}
    /\ session' = EmptySession
    /\ queryCode' \in BOOLEAN
    /\ clicked' = FALSE
    /\ clearShown' = FALSE
    /\ pc' = "top"
    /\ UNCHANGED <<tokenFile, saved>>
    /\ UNCHANGED callVars

Rerun ==
    /\ pc \in {"idle", "crashed"}
    /\ clicked' \in (IF clearShown THEN BOOLEAN ELSE {FALSE})
    /\ clearShown' = FALSE
    /\ pc' = "top"
    /\ UNCHANGED <<session, tokenFile, queryCode, saved>>
    /\ UNCHANGED callVars

\* lines 113-118: reset / initialise the credentials key
ResetCredentials(s) ==
    LET s1 == IF Has(s, "credentials") /\ Truthy(s)
              THEN Put(s, "credentials", "None") ELSE s
    IN  IF ~Has(s1, "credentials") THEN Put(s1, "credentials", "None") ELSE s1

\* lines 113-128
Top ==
    /\ pc = "top"
    /\ LET s2 == ResetCredentials(session)
       IN  IF ~Truthy(s2) /\ tokenFile # "absent"
           THEN IF tokenFile = "good"
                THEN /\ session' = Put(s2, "credentials", "creds")
                     /\ UNCHANGED tokenFile
                ELSE /\ session' = s2
                     /\ tokenFile' = "absent"
           ELSE /\ session' = s2
                /\ UNCHANGED tokenFile
    /\ pc' = "step1"
    /\ UNCHANGED <<queryCode, clearShown, clicked, saved>>
    /\ UNCHANGED callVars

\* lines 130-137: the Authorize button only renders a link
Step1 ==
    /\ pc = "step1"
    /\ pc' = "step2"
    /\ UNCHANGED <<session, tokenFile, queryCode, clearShown, clicked, saved>>
    /\ UNCHANGED callVars

\* lines 139-160
Step2 ==
    /\ pc = "step2"
    /\ IF queryCode /\ ~Truthy(session)
       THEN \/ \* lines 146-156: token fetched, stored, st.rerun()
               /\ session' = Put(session, "credentials", "creds")
               /\ tokenFile' = "good"
               /\ queryCode' = FALSE
               /\ clicked' = FALSE
               /\ clearShown' = FALSE
               /\ pc' = "top"
            \/ \* lines 147-149 raise; handler of lines 157-160
               /\ session' = Del(session, "credentials")
               /\ pc' = "step3"
               /\ UNCHANGED <<tokenFile, queryCode, clicked, clearShown>>
            \/ \* lines 152-153 raise on a truncated file; same handler
               /\ session' = Del(session, "credentials")
               /\ tokenFile' = "corrupt"
               /\ pc' = "step3"
               /\ UNCHANGED <<queryCode, clicked, clearShown>>
       ELSE /\ pc' = "step3"
            /\ UNCHANGED <<session, tokenFile, queryCode, clicked, clearShown>>
    /\ UNCHANGED saved
    /\ UNCHANGED callVars

\* lines 179-187: handler of Step 3, reached with session s and token file f
Step3Handler(s, f) ==
    IF clicked
    THEN /\ tokenFile' = "absent"
         /\ session' = Del(s, "credentials")
         /\ queryCode' = FALSE
         /\ clicked' = FALSE
         /\ clearShown' = FALSE
         /\ pc' = "top"
    ELSE /\ tokenFile' = f
         /\ session' = s
         /\ clearShown' = TRUE
         /\ pc' = "step4"
         /\ UNCHANGED <<queryCode, clicked>>

\* lines 162-178, up to the pipeline's invoke
Step3 ==
    /\ pc = "step3"
    /\ IF ~Has(session, "credentials")
       THEN \* line 163 raises AttributeError, which nothing catches
            /\ pc' = "crashed"
            /\ UNCHANGED <<session, tokenFile, queryCode, clearShown, clicked>>
            /\ UNCHANGED callVars
       ELSE IF ~Truthy(session)
       THEN /\ pc' = "step4"
            /\ UNCHANGED <<session, tokenFile, queryCode, clearShown, clicked>>
            /\ UNCHANGED callVars
       ELSE \/ \* "No upcoming events found."
               /\ pc' = "step4"
               /\ UNCHANGED <<session, tokenFile, queryCode, clearShown, clicked>>
               /\ UNCHANGED callVars
            \/ \* events listed: lines 169-173
               /\ \E t \in Texts : Enter(t)
               /\ pc' = "cal_call"
               /\ UNCHANGED <<session, tokenFile, queryCode, clearShown, clicked>>
            \/ \* RefreshError: lines 98-105, then the handler
               /\ Step3Handler(Del(session, "credentials"), "absent")
               /\ UNCHANGED callVars
            \/ \* any other exception: lines 106-108, then the handler
               /\ Step3Handler(session, tokenFile)
               /\ UNCHANGED callVars
    /\ UNCHANGED saved

\* lines 174-176: the summary is written out
CalReturn ==
    /\ pc = "cal_call"
    /\ callPc = "returned"
    /\ callPc' = "idle"
    /\ pc' = "step4"
    /\ UNCHANGED <<text, attempt, resps, sleeps, ret, outcome, notice, saved>>
    /\ UNCHANGED <<session, tokenFile, queryCode, clearShown, clicked>>

\* the call raised inside the try of line 165
CalRaise ==
    /\ pc = "cal_call"
    /\ callPc = "raised"
    /\ callPc' = "idle"
    /\ Step3Handler(session, tokenFile)
    /\ UNCHANGED <<text, attempt, resps, sleeps, ret, outcome, notice, saved>>

\* line 207
Step4Always ==
    /\ pc = "step4"
    /\ pc' = "news_fetch"
    /\ UNCHANGED <<session, tokenFile, queryCode, clearShown, clicked, saved>>
    /\ UNCHANGED callVars

Step4 ==
    /\ pc = "step4"
    /\ pc' = IF ~Has(session, "news_summary") THEN "news_fetch" ELSE "display"
    /\ UNCHANGED <<session, tokenFile, queryCode, clearShown, clicked, saved>>
    /\ UNCHANGED callVars

\* lines 192-204 and 209-217, up to the pipeline's invoke
GetTopUsaNews ==
    /\ pc = "news_fetch"
    /\ \/ \* "" (request failed, or no article has a title) or "No top news found today."
          /\ session' = Put(Put(session, "news_text", EmptyStr),
                            "news_summary", NoNewsFound)
          /\ pc' = "display"
          /\ UNCHANGED callVars
       \/ /\ \E t \in Texts : Enter(t)
          /\ pc' = "news_call"
          /\ UNCHANGED session
    /\ UNCHANGED <<tokenFile, queryCode, clearShown, clicked, saved>>

\* lines 213-214
NewsReturn ==
    /\ pc = "news_call"
    /\ callPc = "returned"
    /\ callPc' = "idle"
    /\ session' = Put(Put(session, "news_text", text), "news_summary", ret.summary)
    /\ pc' = "display"
    /\ UNCHANGED <<text, attempt, resps, sleeps, ret, outcome, notice, saved>>
    /\ UNCHANGED <<tokenFile, queryCode, clearShown, clicked>>

\* the call raised at line 212, outside any try
NewsRaise ==
    /\ pc = "news_call"
    /\ callPc = "raised"
    /\ callPc' = "idle"
    /\ pc' = "crashed"
    /\ UNCHANGED <<text, attempt, resps, sleeps, ret, outcome, notice, saved>>
    /\ UNCHANGED <<session, tokenFile, queryCode, clearShown, clicked>>

\* lines 219-222
Display ==
    /\ pc = "display"
    /\ pc' = "idle"
    /\ UNCHANGED <<session, tokenFile, queryCode, clearShown, clicked, saved>>
    /\ UNCHANGED callVars


Init ==
    /\ callPc = "idle"
    /\ text = EmptyStr
    /\ attempt = 0
    /\ resps = <<>>
    /\ sleeps = 0
    /\ ret = NoRet
    /\ outcome = "none"
    /\ notice = EmptyStr
    /\ saved = NoCall
    /\ pc = "idle"
    /\ session = EmptySession
    /\ tokenFile \in {"absent", "good"}
    /\ queryCode = FALSE
    /\ clearShown = FALSE
    /\ clicked = FALSE

Next == Invoke \/ Post \/ On200 \/ On503 \/ Sleep \/ OnOther \/ LoopExit \/ Collect

Spec == Init /\ [][Next]_vars

NextApp ==
    \/ NewSession \/ Rerun \/ Top \/ Step1 \/ Step2 \/ Step3 \/ CalReturn \/ CalRaise
    \/ Step4 \/ GetTopUsaNews \/ NewsReturn \/ NewsRaise \/ Display
    \/ Post \/ On200 \/ On503 \/ Sleep \/ OnOther \/ LoopExit

SpecApp == Init /\ [][NextApp]_vars

(***************************************************************************)
(* Properties                                                              *)
(***************************************************************************)
\* t occurs in s; s is a prefix of t
Contains(s, t) ==
    \E i \in 0..(Len(s) - Len(t)) : SubSeq(s, i + 1, i + Len(t)) = t

IsPrefix(s, t) == Len(s) <= Len(t) /\ SubSeq(t, 1, Len(s)) = s

AllUnavailable(rs) == \A i \in 1..Len(rs) : rs[i].status = StatusUnavailable

\* the endpoint answered the first k-1 requests with 503 and the k-th with a
\* 200 whose body is an array with summary_text in its first element
SuccessAt(rs, k) ==
    /\ Len(rs) = k
    /\ AllUnavailable(SubSeq(rs, 1, k - 1))
    /\ rs[k].status = StatusOK
    /\ HasSummary(rs[k])

NonRetryable(r) == r \in Responses /\ r.status \notin {StatusOK, StatusUnavailable}

\* C1: when every response of a call is 503, the call sends exactly
\* MaxAttempts = 3 requests, none after the third, and returns the
\* exhausted-retries result "Summarization failed." (not a success, not the
\* client-error result).
C1_AllUnavailableExhausts ==
    /\ requests <= MaxAttempts
    /\ (requests = MaxAttempts => callPc # "post")
    /\ (Finished /\ AllUnavailable(resps) =>
            /\ callPc = "returned"
            /\ requests = MaxAttempts
            /\ outcome = "ExhaustedRetries"
            /\ ret = [text |-> text, summary |-> SummaryFailed])

C1_Witness ==
    /\ callPc = "returned"
    /\ Len(resps) = MaxAttempts
    /\ AllUnavailable(resps)
    /\ outcome = "ExhaustedRetries"

\* C2: for every k in 1..MaxAttempts, when the first k-1 responses are 503
\* and the k-th is a 200 carrying a summary, the call sends exactly k
\* requests, none after the successful one, and returns Success with the
\* summary_text of the first element of the k-th body.
C2_SuccessOnAttemptK ==
    \A k \in 1..MaxAttempts :
        SuccessAt(resps, k) =>
            /\ callPc \in {"check", "returned", "idle"}
            /\ requests = k
            /\ (callPc # "check" =>
                    /\ outcome = "Success"
                    /\ ret = [text |-> text,
                              summary |-> resps[k].json.items[1].summary_text])

C2_Witness ==
    /\ callPc = "returned"
    /\ SuccessAt(resps, MaxAttempts)
    /\ Len(LastResp.json.items) > 1
    /\ ret.summary = <<"bad request">>

\* C3: a response that is neither 200 nor 503 is the last of its call: the
\* call returns the client-error result with no further request and no wait
\* after it; on the first attempt that makes exactly one request.
C3_NonRetryableReturnsAtOnce ==
    \A i \in 1..Len(resps) :
        NonRetryable(resps[i]) =>
            /\ i = Len(resps)
            /\ requests = i
            /\ callPc \in {"check", "returned", "idle"}
            /\ sleeps = i - 1
            /\ (callPc # "check" => outcome = "ClientError")

C3_Witness ==
    /\ callPc = "returned"
    /\ Len(resps) = 1
    /\ NonRetryable(resps[1])
    /\ sleeps = 0
    /\ outcome = "ClientError"

\* C4: a call never ends by raising, whatever the endpoint does.
C4_NeverRaises == callPc # "raised"

C6_ReturnDeterminesKind ==
    (saved.done /\ ~saved.raised /\ callPc = "returned" /\ saved.ret = ret) =>
        saved.outcome = outcome

\* C7: a wait happens after a 503 only when attempts remain: no wait after
\* the response to the last allowed attempt, so a call with MaxAttempts 503
\* responses waits MaxAttempts - 1 times.
C7_WaitOnlyWhenAttemptsRemain ==
    /\ (callPc = "sleep" => attempt + 1 < MaxAttempts)
    /\ (callPc = "returned" /\ AllUnavailable(resps) /\ Len(resps) = MaxAttempts =>
            sleeps = MaxAttempts - 1)

\* C8: two finished calls with the same input text whose responses come from
\* the same response sequence (one's responses are a prefix of the other's)
\* give identical results and send the same number of requests, whatever
\* calls came before.
C8_CallsAreIndependent ==
    (/\ saved.done
     /\ Finished
     /\ saved.text = text
     /\ (IsPrefix(saved.resps, resps) \/ IsPrefix(resps, saved.resps))) =>
        /\ Len(saved.resps) = requests
        /\ saved.raised = (callPc = "raised")
        /\ saved.ret = ret
        /\ saved.outcome = outcome

C8_Witness ==
    /\ saved.done
    /\ callPc = "returned"
    /\ saved.text = text
    /\ saved.resps = resps
    /\ Len(resps) = 2
    /\ outcome = "ClientError"

\* C9: within one session, once news_summary is set, news_text and
\* news_summary keep their values and no run fetches the news or starts the
\* news summarization again, also when the stored summary is the failure
\* text of summarize_text.
C9_NewsOncePerSession ==
    [][ \/ NewSession
        \/ (Has(session, "news_summary") =>
                /\ Has(session', "news_summary")
                /\ Has(session', "news_text")
                /\ session'["news_summary"] = session["news_summary"]
                /\ session'["news_text"] = session["news_text"]
                /\ pc' \notin {"news_fetch", "news_call"}) ]_vars

\* a later run of the same session reaches Step 4 with a stored failure text
C9_Witness ==
    /\ pc = "step4"
    /\ Has(session, "news_summary")
    /\ session["news_summary"] = SummaryFailed
    /\ session["news_text"] # EmptyStr

\* C10: whenever a run reaches the Step 3 read of
\* st.session_state.credentials, the session state holds the key.
C10_CredentialsKeyAtStep3 == pc = "step3" => Has(session, "credentials")

====
